---- MODULE Spec2Model ----
(***************************************************************************)
(* Model of the demand-responsive dispatch engine of Geekhathon2025:       *)
(*   routePlanning/dynamic_route_optimizer.py  (DynamicRouteOptimizer)     *)
(*   routePlanning/route_calculator_lambda.py  (RouteCalculator)           *)
(*   dynamic_route_optimizer.py                (the first optimizer)       *)
(*                                                                         *)
(* Conventions of the model                                                *)
(*  - a pickup instant is a whole number of minutes; a request's           *)
(*    requestedPickupAt is a record [k, t]: k = "absent" (the key is not   *)
(*    in the dict), k = "none" (the key is there with value None, which    *)
(*    get_requests stores when the string does not parse), k = "dt"        *)
(*    (a datetime, t minutes) or k = "str" (the datetime as the string     *)
(*    calculate_route_via_lambda serializes it to);                        *)
(*  - an optional dict entry (vehicle capacity, longitude, latitude) is a  *)
(*    sequence: <<>> when the key is missing, <<x>> when it is there;      *)
(*  - coordinates are integers <<lon, lat>>; None is <<>>;                 *)
(*  - costs are exact rationals in units of 1/CostUnit; the stops and the  *)
(*    vehicles of the input palettes lie on a 3-4-5 grid, so that every    *)
(*    Euclidean distance the cost needs is an integer.                     *)
(***************************************************************************)
EXTENDS Integers, Sequences, FiniteSets, TLC

VARIABLES
    requests,      \* the request snapshot of the run (get_requests)
    vehicles,      \* the fleet snapshot of the run (get_vehicles)
    stops,         \* the stop store: stop id -> item
    max_wait,      \* max_wait_minutes of the run
    max_travel,    \* max_travel_minutes of the run
    pc,            \* position in run_optimization
    sorted_requests, \* assign_requests_to_vehicles: requests in pickup order
    idx,           \* assign_requests_to_vehicles: next position in sorted_requests
    assignments,   \* vehicleId -> list of requests
    log,           \* one entry per placement decision of the assignment loop
    vidx,          \* run_optimization: next position of the routing loop
    routes,        \* vehicleId -> Route Result
    raised,        \* vehicle ids whose sequencing raised in this run
    ret,           \* what run_optimization returned
    runNo,         \* 1 for the first run on the snapshot, 2 for the repeated one
    first,         \* Assignment and sequences of the first run
    batch,         \* the request list handed to one sequencing call
    local,         \* result of _calculate_route_locally on batch
    remote,        \* result of RouteCalculator.optimize_route on batch
    legacy,        \* result of the first optimizer's optimize_route_with_location_service
    table,         \* the items of the request table as stored (raw pickup instants)
    start_datetime, \* the start filter string handed to run_optimization
    end_datetime,  \* the end filter string handed to run_optimization
    filter_calls,  \* call name -> what the call produced on table
    lpc,           \* position in calculate_route_via_lambda
    lambda_response, \* what the Lambda invocation produced
    attempts,      \* remote invocations and local sequencing calls made so far
    via_result,    \* what calculate_route_via_lambda returned
    todo,          \* stop ids one sequencing call has still to resolve, in call order
    get_item_calls, \* stop id -> number of stops_table.get_item calls made for it
    resolutions,   \* the get_stop_coords calls made so far: stop id and result
    web,           \* web_server.index: the state of each HTTP request being handled
    files,         \* the working directory: second of the file name -> content
    now,           \* int(time.time()), counted from the start
    current_map_file \* web_server.current_map_file

vars == <<requests, vehicles, stops, max_wait, max_travel, pc, sorted_requests,
          idx, assignments, log, vidx, routes, raised, ret, runNo, first,
          batch, local, remote, legacy,
          table, start_datetime, end_datetime, filter_calls,
          lpc, lambda_response, attempts, via_result,
          todo, get_item_calls, resolutions,
          web, files, now, current_map_file>>

(***************************************************************************)
(* Bounds of the model                                                     *)
(***************************************************************************)
MaxReq == 3        \* requests in a snapshot
MaxHead == 2       \* freely chosen requests at the head of a sequencing batch
MaxPad == 12       \* generated requests that follow the head of a batch

(***************************************************************************)
(* Program constants                                                       *)
(***************************************************************************)
DefaultCapacity == 20     \* vehicle.get('capacity', 20)
MinutesPerStop == 3       \* estimated_duration = total_stops * 3
MaxWaypoints == 23        \* if len(waypoints) > 23
DropoffOffset == 100      \* pickup_order.get(..., 999) + 100
MissingPickupOrder == 999 \* pickup_order.get(..., 999)
CostUnit == 3000          \* one cost unit (1.0) of _calculate_assignment_cost
DayStart == 1758441600    \* POSIX seconds of minute 0 of the pickup instants
LegacyDelay == 1800       \* pickup_dt.timestamp() + 1800
LegacyNoInstant == 999999 \* dropoff priority of a request without an instant

(***************************************************************************)
(* Values                                                                  *)
(***************************************************************************)
None == <<>>
Absent == [k |-> "absent", t |-> 0]
NoneAt == [k |-> "none", t |-> 0]
At(t) == [k |-> "dt", t |-> t]

Truthy(at) == at.k = "dt"        \* `if pickup_dt:` on a datetime-or-missing value

Req(id, o, d, at) ==
    [requestId |-> id, originStopId |-> o, destStopId |-> d, requestedPickupAt |-> at]

Veh(id, lon, lat, cap) ==
    [vehicleId |-> id, longitude |-> lon, latitude |-> lat, capacity |-> cap]

Get(opt, default) == IF opt = <<>> THEN default ELSE opt[1]     \* dict.get(key, default)

Range(s) == {s[i] : i \in 1..Len(s)}
Abs(x) == IF x < 0 THEN 0 - x ELSE x
SetMin(S) == CHOOSE x \in S : \A y \in S : x <= y
SetMax(S) == CHOOSE x \in S : \A y \in S : x >= y

RECURSIVE Sum(_)
Sum(s) == IF s = <<>> THEN 0 ELSE s[1] + Sum(Tail(s))

\* Python's sorted()/list.sort(): the stable ascending order of s by keys,
\* where keys[i] is the integer key of s[i].  SortedIndices[p] is the index
\* that lands at position p: an index comes after every index with a smaller
\* key and after every earlier index with an equal key.
SortedIndices(keys, n) ==
    LET rank == <<>> \o [i \in 1..n |->
                    Cardinality({j \in 1..n : \/ keys[j] < keys[i]
                                              \/ keys[j] = keys[i] /\ j <= i})]
    IN  <<>> \o [p \in 1..n |-> CHOOSE i \in 1..n : rank[i] = p]

StableSort(s, keys) ==
    LET order == SortedIndices(<<>> \o keys, Len(s))
    IN  <<>> \o [p \in 1..Len(s) |-> s[order[p]]]

\* x ** 0.5 for x >= 0: the largest r with r * r <= x (exact on perfect squares).
ISqrt(x) == CHOOSE r \in 0..x : r * r <= x /\ (r + 1) * (r + 1) > x

(***************************************************************************)
(* get_stop_coords                                                         *)
(***************************************************************************)
\* faulty variant: the zero/zero test is missing
get_stop_coords_no_zero_test(store, stop_id) ==
    IF stop_id \in DOMAIN store
    THEN <<store[stop_id].stop_lon, store[stop_id].stop_lat>>
    ELSE None

get_stop_coords(store, stop_id) ==
    IF stop_id \notin DOMAIN store
    THEN None                                   \* item = {} : lat = lon = 0
    ELSE LET lat == store[stop_id].stop_lat
             lon == store[stop_id].stop_lon
         IN  IF lat = 0 /\ lon = 0 THEN None ELSE <<lon, lat>>

\* RouteCalculator.get_stop_coords: no zero/zero test
remote_get_stop_coords(store, stop_id) ==
    IF stop_id \in DOMAIN store
    THEN <<store[stop_id].stop_lon, store[stop_id].stop_lat>>
    ELSE None

calculate_distance(pos1, pos2) ==
    ISqrt((pos1[1] - pos2[1]) * (pos1[1] - pos2[1])
          + (pos1[2] - pos2[2]) * (pos1[2] - pos2[2]))

(***************************************************************************)
(* Feasibility checks of the assignment loop                               *)
(***************************************************************************)
\* faulty variant: the waiting-time test never blocks
violates_waiting_time_never(request, current_requests, mw) == FALSE

\* faulty variant: a difference of exactly the limit is a violation
violates_waiting_time_at_limit(request, current_requests, mw) ==
    LET request_dt == request.requestedPickupAt
    IN  IF ~Truthy(request_dt) THEN FALSE
        ELSE \E i \in 1..Len(current_requests) :
                LET existing_dt == current_requests[i].requestedPickupAt
                IN  /\ Truthy(existing_dt)
                    /\ Abs(request_dt.t - existing_dt.t) * 60 >= mw * 60

violates_waiting_time(request, current_requests, mw) ==
    LET request_dt == request.requestedPickupAt
    IN  IF ~Truthy(request_dt) THEN FALSE
        ELSE \E i \in 1..Len(current_requests) :
                LET existing_dt == current_requests[i].requestedPickupAt
                IN  /\ Truthy(existing_dt)
                    /\ Abs(request_dt.t - existing_dt.t) * 60 > mw * 60

\* faulty variant: the estimate is also applied to an empty vehicle
violates_travel_duration_when_empty(request, current_requests, mt) ==
    LET all_requests == Append(current_requests, request)
        total_stops == Len(all_requests) * 2
        estimated_duration == total_stops * MinutesPerStop
    IN  estimated_duration > mt

\* faulty variant: the request being placed is not counted
violates_travel_duration_held_only(request, current_requests, mt) ==
    IF current_requests = <<>> THEN FALSE
    ELSE Len(current_requests) * 2 * MinutesPerStop > mt

violates_travel_duration(request, current_requests, mt) ==
    IF current_requests = <<>> THEN FALSE
    ELSE LET all_requests == Append(current_requests, request)
             total_stops == Len(all_requests) * 2
             estimated_duration == total_stops * MinutesPerStop
         IN  estimated_duration > mt

(***************************************************************************)
(* Cost model, in units of 1/CostUnit                                      *)
(***************************************************************************)
Inf == [fin |-> FALSE, val |-> 0]
Fin(v) == [fin |-> TRUE, val |-> v]
\* faulty variant: `cost <= min_cost`, a later vehicle wins a tie
CostLess_or_equal(a, b) == a.fin /\ (~b.fin \/ a.val <= b.val)

CostLess(a, b) == a.fin /\ (~b.fin \/ a.val < b.val)      \* a < b on floats with inf

calculate_route_efficiency_penalty(store, request, current_requests) ==
    IF current_requests = <<>> THEN 0
    ELSE
    LET origin == get_stop_coords(store, request.originStopId)
        dest == get_stop_coords(store, request.destStopId)
        existing_coords ==
            {get_stop_coords(store, current_requests[i].originStopId) :
                i \in 1..Len(current_requests)}
            \cup {get_stop_coords(store, current_requests[i].destStopId) :
                i \in 1..Len(current_requests)}
        found == existing_coords \ {None}
    IN  IF found = {} THEN 0
        ELSE
        LET min_lon == SetMin({c[1] : c \in found})
            max_lon == SetMax({c[1] : c \in found})
            min_lat == SetMin({c[2] : c \in found})
            max_lat == SetMax({c[2] : c \in found})
            outside(c) == c[1] < min_lon \/ c[1] > max_lon
                          \/ c[2] < min_lat \/ c[2] > max_lat
        IN  (IF outside(origin) THEN (3 * CostUnit) \div 10 ELSE 0)
            + (IF outside(dest) THEN (3 * CostUnit) \div 10 ELSE 0)

calculate_time_clustering_bonus(request, current_requests) ==
    IF current_requests = <<>> THEN 0
    ELSE
    LET request_dt == request.requestedPickupAt
    IN  IF ~Truthy(request_dt) THEN 0
        ELSE
        LET timed == SelectSeq(current_requests,
                               LAMBDA e : Truthy(e.requestedPickupAt))
            time_diffs == [i \in 1..Len(timed) |->
                              Abs(request_dt.t - timed[i].requestedPickupAt.t)]
            n == Len(time_diffs)
        IN  IF n = 0 THEN 0
            ELSE \* -max(0, (10 - sum/n) * 0.02)
                 LET num == (10 * n - Sum(time_diffs)) * ((2 * CostUnit) \div 100)
                 IN  IF num > 0 THEN 0 - (num \div n) ELSE 0

calculate_geo_clustering_bonus(request, current_requests) ==
    LET request_origin == request.originStopId
        request_dest == request.destStopId
        one(existing) ==
            (IF request_origin = existing.originStopId
                THEN 0 - (2 * CostUnit) \div 10 ELSE 0)
            + (IF request_dest = existing.destStopId
                THEN 0 - (2 * CostUnit) \div 10 ELSE 0)
            + (IF request_origin = existing.destStopId
                  \/ request_dest = existing.originStopId
                THEN 0 - CostUnit \div 10 ELSE 0)
    IN  Sum([i \in 1..Len(current_requests) |-> one(current_requests[i])])

calculate_assignment_cost(store, request, vehicle, current_requests) ==
    LET origin_coords == get_stop_coords(store, request.originStopId)
        dest_coords == get_stop_coords(store, request.destStopId)
    IN  IF origin_coords = None \/ dest_coords = None THEN Inf
        ELSE
        LET vehicle_pos == <<Get(vehicle.longitude, 0), Get(vehicle.latitude, 0)>>
            distance_to_pickup == calculate_distance(vehicle_pos, origin_coords)
            trip_distance == calculate_distance(origin_coords, dest_coords)
            utilization_bonus == 0 - Len(current_requests) * (CostUnit \div 10)
        IN  Fin(distance_to_pickup * 2 * CostUnit
                + trip_distance * (CostUnit \div 2)
                + calculate_route_efficiency_penalty(store, request, current_requests)
                + utilization_bonus
                + calculate_time_clustering_bonus(request, current_requests)
                + calculate_geo_clustering_bonus(request, current_requests))

(***************************************************************************)
(* assign_requests_to_vehicles                                             *)
(***************************************************************************)
\* key of sorted(requests, key=get_pickup_datetime): the instant, or
\* datetime.fromtimestamp(0), which is before every instant of a snapshot
\* faulty variant: a missing instant defaults to the wall clock of the run
get_pickup_datetime_now(req) ==
    IF Truthy(req.requestedPickupAt) THEN req.requestedPickupAt.t
    ELSE IF runNo = 1 THEN 7 ELSE 60

get_pickup_datetime(req) ==
    IF Truthy(req.requestedPickupAt) THEN req.requestedPickupAt.t ELSE 0 - 1

\* faulty variant: the requests are taken in input order
SortByPickup_input_order(reqs) == reqs

SortByPickup(reqs) ==
    StableSort(reqs, [i \in 1..Len(reqs) |-> get_pickup_datetime(reqs[i])])

EmptyAssignments(fleet) ==
    [id \in {fleet[i].vehicleId : i \in 1..Len(fleet)} |-> <<>>]

\* the three tests of the vehicle loop that `continue`
Feasible(request, vehicle, current_requests, mw, mt) ==
    /\ ~(Len(current_requests) >= Get(vehicle.capacity, DefaultCapacity))
    /\ ~violates_waiting_time(request, current_requests, mw)
    /\ ~violates_travel_duration(request, current_requests, mt)

\* the vehicle loop from position i on; acc = [best, min_cost], best = 0 is None
RECURSIVE ScanVehicles(_, _, _, _, _, _, _, _)
ScanVehicles(store, request, fleet, asg, mw, mt, i, acc) ==
    IF i > Len(fleet) THEN acc
    ELSE
    LET vehicle == fleet[i]
        current_requests == asg[vehicle.vehicleId]
    IN  IF ~Feasible(request, vehicle, current_requests, mw, mt)
        THEN ScanVehicles(store, request, fleet, asg, mw, mt, i + 1, acc)
        ELSE
        LET cost == calculate_assignment_cost(store, request, vehicle, current_requests)
        IN  IF CostLess(cost, acc.min_cost)
            THEN ScanVehicles(store, request, fleet, asg, mw, mt, i + 1,
                              [best |-> i, min_cost |-> cost])
            ELSE ScanVehicles(store, request, fleet, asg, mw, mt, i + 1, acc)

best_vehicle(store, request, fleet, asg, mw, mt) ==
    ScanVehicles(store, request, fleet, asg, mw, mt, 1,
                 [best |-> 0, min_cost |-> Inf]).best

\* faulty variant: the last vehicle of the fewest count
least_loaded_last(fleet, asg) ==
    CHOOSE i \in 1..Len(fleet) :
        /\ \A j \in 1..Len(fleet) :
              Len(asg[fleet[i].vehicleId]) <= Len(asg[fleet[j].vehicleId])
        /\ \A j \in (i + 1)..Len(fleet) :
              Len(asg[fleet[j].vehicleId]) > Len(asg[fleet[i].vehicleId])

\* min(vehicles, key=lambda v: len(assignments[v['vehicleId']])): the first minimum
least_loaded(fleet, asg) ==
    CHOOSE i \in 1..Len(fleet) :
        /\ \A j \in 1..Len(fleet) :
              Len(asg[fleet[i].vehicleId]) <= Len(asg[fleet[j].vehicleId])
        /\ \A j \in 1..(i - 1) :
              Len(asg[fleet[j].vehicleId]) > Len(asg[fleet[i].vehicleId])

FeasibleSet(request, fleet, asg, mw, mt) ==
    {i \in 1..Len(fleet) :
        Feasible(request, fleet[i], asg[fleet[i].vehicleId], mw, mt)}

\* faulty variant: the request is put in front of the vehicle's list
Place_at_front(asg, vehicle_id, request) ==
    [asg EXCEPT ![vehicle_id] = <<request>> \o @]

\* line 106 (and 110): assignments[vehicle_id].append(request)
Place(asg, vehicle_id, request) ==
    [asg EXCEPT ![vehicle_id] = Append(@, request)]

LogEntry(request, fleet, asg, i, forced) ==
    [requestId |-> request.requestId,
     vehicleId |-> fleet[i].vehicleId,
     forced |-> forced,
     feasible |-> FeasibleSet(request, fleet, asg, max_wait, max_travel),
     load |-> Len(asg[fleet[i].vehicleId]),
     capacity |-> Get(fleet[i].capacity, DefaultCapacity)]

(***************************************************************************)
(* Input palettes                                                          *)
(***************************************************************************)
\* B, C and D are three corners of a 3 x 4 rectangle; Z has zero/zero
\* coordinates; the stop id "X" is in no store.
StopStore ==
    [id \in {"B", "C", "D", "Z"} |->
        CASE id = "B" -> [stop_lon |-> 3, stop_lat |-> 0]
          [] id = "C" -> [stop_lon |-> 0, stop_lat |-> 4]
          [] id = "D" -> [stop_lon |-> 3, stop_lat |-> 4]
          [] id = "Z" -> [stop_lon |-> 0, stop_lat |-> 0]]

StopStores == {StopStore}

\* <<origin, destination, requestedPickupAt>>
ReqShapes ==
    { <<"B", "D", At(0)>>,
      <<"C", "D", At(5)>>,
      <<"D", "B", At(40)>>,
      <<"B", "C", Absent>>,
      <<"Z", "D", At(5)>>,
      <<"B", "X", At(10)>>,
      <<"X", "B", NoneAt>> }

MkRequests(shapes) ==
    [i \in 1..Len(shapes) |-> Req(i, shapes[i][1], shapes[i][2], shapes[i][3])]

SeqsUpTo(S, n) == UNION {[1..k -> S] : k \in 0..n}

RequestLists == {MkRequests(sh) : sh \in SeqsUpTo(ReqShapes, MaxReq)}

Fleets ==
    { <<>>,
      <<Veh("v1", <<>>, <<>>, <<>>)>>,
      <<Veh("v1", <<0>>, <<0>>, <<1>>), Veh("v2", <<0>>, <<0>>, <<1>>)>>,
      <<Veh("v1", <<0>>, <<0>>, <<1>>), Veh("v2", <<3>>, <<4>>, <<3>>)>>,
      <<Veh("v1", <<0>>, <<4>>, <<2>>), Veh("v2", <<3>>, <<4>>, <<1>>),
        Veh("v3", <<>>, <<>>, <<>>)>> }

\* <<max_wait_minutes, max_travel_minutes>>: the defaults, and a tight pair
Thresholds == { <<15, 20>>, <<5, 10>> }

(***************************************************************************)
(* Sequencing: _calculate_route_locally and RouteCalculator.optimize_route *)
(***************************************************************************)
\* a result of a sequencing call; raise = TRUE: the call raised instead
RouteResult(route, distance, duration, has_keys, waypoints, sequence) ==
    [raise |-> FALSE, route |-> route, distance |-> distance, duration |-> duration,
     has_keys |-> has_keys, waypoints |-> waypoints, sequence |-> sequence]

Raise ==
    [raise |-> TRUE, route |-> "empty", distance |-> 0, duration |-> 0,
     has_keys |-> FALSE, waypoints |-> <<>>, sequence |-> <<>>]

\* the route-geometry provider (location_client.calculate_route): it either
\* raises or answers with legs and a positive distance and duration
calculate_route(waypoints, outcome) ==
    IF outcome = "error" THEN [ok |-> FALSE, Distance |-> 0, DurationSeconds |-> 0]
    ELSE [ok |-> TRUE, Distance |-> Len(waypoints) - 1,
          DurationSeconds |-> 60 * (Len(waypoints) - 1)]

\* sorted(requests, key=lambda r: r.get('requestedPickupAt', '')) on the
\* optimizer's requests: the keys are '' (no key), None or a datetime. Python
\* raises TypeError when it compares None with anything or '' with a datetime.
local_sort_raises(reqs) ==
    /\ Len(reqs) >= 2
    /\ \/ \E i \in 1..Len(reqs) : reqs[i].requestedPickupAt.k = "none"
       \/ /\ \E i \in 1..Len(reqs) : reqs[i].requestedPickupAt.k = "absent"
          /\ \E i \in 1..Len(reqs) : reqs[i].requestedPickupAt.k = "dt"

\* calculate_route_via_lambda, lines 184-190: a datetime crosses to the Lambda
\* as its '%Y-%m-%d %H:%M:%S' string, anything else unchanged
serialize(req) ==
    IF req.requestedPickupAt.k = "dt"
    THEN [req EXCEPT !.requestedPickupAt = [k |-> "str", t |-> @.t]]
    ELSE req

\* the same sort in the Lambda: the keys are '' , None or a date string; ''
\* is below every date string, and date strings order as their instants do
remote_sort_raises(reqs) ==
    /\ Len(reqs) >= 2
    /\ \E i \in 1..Len(reqs) : reqs[i].requestedPickupAt.k = "none"

sort_key(req) ==
    IF req.requestedPickupAt.k \in {"dt", "str"} THEN req.requestedPickupAt.t ELSE 0 - 1

sort_by_pickup_key(reqs) ==
    StableSort(reqs, [i \in 1..Len(reqs) |-> sort_key(reqs[i])])

\* faulty variant: the offset is subtracted
dropoff_priority_minus(order) == order - DropoffOffset

\* line 1058: pickup_order.get(req.get('requestId'), 999) + 100
dropoff_priority(order) == order + DropoffOffset

\* the pickup loop, the dropoff loop and all_stops.sort of both routines;
\* each routine ("local", "remote") resolves stops by its own get_stop_coords
stop_coords_of(routine, store, stop_id) ==
    IF routine = "local" THEN get_stop_coords(store, stop_id)
    ELSE remote_get_stop_coords(store, stop_id)

all_stops_sorted(store, sorted, routine) ==
    LET n == Len(sorted)
        origin(i) == stop_coords_of(routine, store, sorted[i].originStopId)
        dest(i) == stop_coords_of(routine, store, sorted[i].destStopId)
        pickup(i) == [type |-> "pickup", requestId |-> sorted[i].requestId,
                      stopId |-> sorted[i].originStopId, coords |-> origin(i),
                      priority |-> i - 1]
        pickup_order_get(id) ==
            LET S == {i \in 1..n : sorted[i].requestId = id /\ origin(i) # None}
            IN  IF S = {} THEN MissingPickupOrder ELSE SetMax(S) - 1
        dropoff(i) == [type |-> "dropoff", requestId |-> sorted[i].requestId,
                       stopId |-> sorted[i].destStopId, coords |-> dest(i),
                       priority |-> dropoff_priority(
                                        pickup_order_get(sorted[i].requestId))]
        events == [i \in 1..n |-> pickup(i)] \o [i \in 1..n |-> dropoff(i)]
        all_stops == SelectSeq(events, LAMBDA e : e.coords # None)
    IN  StableSort(all_stops, [i \in 1..Len(all_stops) |-> all_stops[i].priority])

\* faulty variant: the waypoints are taken from the pickup events only
Waypoints_of_pickups(all_stops) ==
    LET pickups == SelectSeq(all_stops, LAMBDA e : e.type = "pickup")
    IN  [i \in 1..Len(pickups) |-> pickups[i].coords]

\* line 1063: waypoints = [stop['coords'] for stop in all_stops]
Waypoints(all_stops) == [i \in 1..Len(all_stops) |-> all_stops[i].coords]

\* faulty variant: no waypoint limit
Truncate_missing(s) == s

\* lines 1069-1071: waypoints[:23], all_stops[:23]
Truncate(s) == IF Len(s) > MaxWaypoints THEN SubSeq(s, 1, MaxWaypoints) ELSE s

\* faulty variant: the except branch returns the bare result of lines 216 and 838
degraded_result_bare(waypoints, all_stops) ==
    RouteResult("empty", 0, 0, FALSE, <<>>, <<>>)

\* lines 1091-1099 (and 123-131 of the Lambda): the provider raised
degraded_result(waypoints, all_stops) ==
    RouteResult("empty", 0, 0, TRUE, waypoints, all_stops)

calculate_route_locally(store, reqs, outcome) ==
    IF reqs = <<>> THEN RouteResult("empty", 0, 0, TRUE, <<>>, <<>>)
    ELSE IF local_sort_raises(reqs) THEN Raise
    ELSE
    LET all_stops == all_stops_sorted(store, sort_by_pickup_key(reqs), "local")
        waypoints == Waypoints(all_stops)
    IN  IF Len(waypoints) < 2
        THEN RouteResult("empty", 0, 0, TRUE, waypoints, all_stops)
        ELSE
        LET response == calculate_route(Truncate(waypoints), outcome)
        IN  IF response.ok
            THEN RouteResult("legs", response.Distance, response.DurationSeconds,
                             TRUE, Truncate(waypoints), Truncate(all_stops))
            ELSE degraded_result(Truncate(waypoints), Truncate(all_stops))

\* RouteCalculator.optimize_route, on the requests as the Lambda receives them
optimize_route(store, reqs, outcome) ==
    IF reqs = <<>> THEN RouteResult("empty", 0, 0, FALSE, <<>>, <<>>)
    ELSE IF remote_sort_raises(reqs) THEN Raise
    ELSE
    LET all_stops == all_stops_sorted(store, sort_by_pickup_key(reqs), "remote")
        waypoints == Waypoints(all_stops)
    IN  IF Len(waypoints) < 2
        THEN RouteResult("empty", 0, 0, FALSE, <<>>, <<>>)
        ELSE
        LET response == calculate_route(Truncate(waypoints), outcome)
        IN  IF response.ok
            THEN RouteResult("legs", response.Distance, response.DurationSeconds,
                             TRUE, Truncate(waypoints), Truncate(all_stops))
            ELSE degraded_result(Truncate(waypoints), Truncate(all_stops))

\* src/dynamic_route_optimizer.py, optimize_route_with_location_service: the
\* events are emitted request by request and ordered by POSIX seconds
legacy_optimize_route(store, reqs, outcome) ==
    IF reqs = <<>> THEN RouteResult("empty", 0, 0, FALSE, <<>>, <<>>)
    ELSE
    LET sorted == SortByPickup(reqs)
        n == Len(sorted)
        timestamp(r) == DayStart + 60 * r.requestedPickupAt.t
        pickup(r) == [type |-> "pickup", requestId |-> r.requestId,
                      stopId |-> r.originStopId,
                      coords |-> get_stop_coords(store, r.originStopId),
                      priority |-> IF Truthy(r.requestedPickupAt)
                                   THEN timestamp(r) ELSE 0]
        dropoff(r) == [type |-> "dropoff", requestId |-> r.requestId,
                       stopId |-> r.destStopId,
                       coords |-> get_stop_coords(store, r.destStopId),
                       priority |-> IF Truthy(r.requestedPickupAt)
                                    THEN timestamp(r) + LegacyDelay
                                    ELSE LegacyNoInstant]
        events == [k \in 1..(2 * n) |->
                      IF k % 2 = 1 THEN pickup(sorted[(k + 1) \div 2])
                      ELSE dropoff(sorted[k \div 2])]
        found == SelectSeq(events, LAMBDA e : e.coords # None)
        all_stops == StableSort(found, [i \in 1..Len(found) |-> found[i].priority])
        waypoints == Waypoints(all_stops)
    IN  IF Len(waypoints) < 2
        THEN RouteResult("empty", 0, 0, FALSE, <<>>, <<>>)
        ELSE
        LET response == calculate_route(Truncate(waypoints), outcome)
        IN  IF response.ok
            THEN RouteResult("legs", response.Distance, response.DurationSeconds,
                             TRUE, Truncate(waypoints), Truncate(all_stops))
            ELSE degraded_result(Truncate(waypoints), Truncate(all_stops))

\* run_optimization, lines 832-838: the per-vehicle try/except
optimize_route_with_location_service(store, reqs, outcome) ==
    calculate_route_locally(store, reqs, outcome)

route_or_fallback(result) ==
    IF result.raise
    THEN RouteResult("empty", 0, 0, FALSE, <<>>, <<>>)
    ELSE result

(***************************************************************************)
(* run_optimization on a loaded snapshot                                   *)
(***************************************************************************)
NoRet == [returned |-> FALSE, assignments |-> <<>>, routes |-> <<>>, map_file |-> "None"]
Ret(a, r, m) == [returned |-> TRUE, assignments |-> a, routes |-> r, map_file |-> m]
NoRun == [ran |-> FALSE, assignments |-> <<>>, sequences |-> <<>>]
NotCalled == [called |-> FALSE, outcome |-> "ok", result |-> Raise]
Called(outcome, result) == [called |-> TRUE, outcome |-> outcome, result |-> result]

ProviderOutcomes == {"ok", "error"}
\* create_route_map: a file name, None (lines 617-637, 1114-1116), or the
\* exception its handlers re-raise (lines 261-263, 613-615)
MapOutcomes == {"file", "None", "raise"}

VehicleIds == {vehicles[i].vehicleId : i \in 1..Len(vehicles)}

\* a filter string of run_optimization: none given (None or ''), one that
\* strptime('%Y-%m-%d %H:%M') rejects, or one it parses to minute t
NoFilter == [k |-> "none", t |-> 0]
BadFilter == [k |-> "bad", t |-> 0]
Filter(t) == [k |-> "ok", t |-> t]

\* calculate_route_via_lambda: the answer of lambda_client.invoke
NoResponse == [kind |-> "none", statusCode |-> 0, body |-> Raise]
\* calculate_route_via_lambda is not being called
FallbackIdle ==
    /\ lpc = "idle"
    /\ lambda_response = NoResponse
    /\ attempts = [remote |-> 0, local |-> 0]
    /\ via_result = NotCalled

FilterVars == <<table, start_datetime, end_datetime, filter_calls>>
FallbackVars == <<lpc, lambda_response, attempts, via_result>>
ResolveVars == <<todo, get_item_calls, resolutions>>
WebVars == <<web, files, now, current_map_file>>
AuxVars == <<FilterVars, FallbackVars, ResolveVars, WebVars>>

\* the variables of the other operations while run_optimization's loops or
\* the sequencing routines are the operation under study
FilterIdle ==
    /\ table = <<>>
    /\ start_datetime = NoFilter
    /\ end_datetime = NoFilter
    /\ filter_calls = <<>>

StopIds == {"B", "C", "D", "Z", "X"}
\* no stop is being resolved
ResolveIdle ==
    /\ todo = <<>>
    /\ get_item_calls = [s \in StopIds |-> 0]
    /\ resolutions = <<>>

\* the web server handles no HTTP request
WebIdle ==
    /\ web = <<>>
    /\ files = <<>>
    /\ now = 0
    /\ current_map_file = None

AuxIdle ==
    /\ FilterIdle
    /\ FallbackIdle
    /\ ResolveIdle
    /\ WebIdle

RunStart ==
    /\ pc = "loaded"
    /\ sorted_requests = <<>>
    /\ idx = 0
    /\ assignments = <<>>
    /\ log = <<>>
    /\ vidx = 0
    /\ routes = <<>>
    /\ raised = {}
    /\ ret = NoRet

Init ==
    /\ requests \in RequestLists
    /\ vehicles \in Fleets
    /\ stops \in StopStores
    /\ \E th \in Thresholds : max_wait = th[1] /\ max_travel = th[2]
    /\ RunStart
    /\ runNo = 1
    /\ first = NoRun
    /\ batch = <<>>
    /\ local = NotCalled
    /\ remote = NotCalled
    /\ legacy = NotCalled
    /\ AuxIdle

Inputs == <<requests, vehicles, stops, max_wait, max_travel>>
SeqVars == <<batch, local, remote, legacy>>

\* lines 801-810: no requests, an empty Assignment per vehicle and an empty
\* map; when create_route_map raises, the handler returns {}, {}, None
ReturnEmpty ==
    /\ pc = "loaded"
    /\ requests = <<>>
    /\ \E m \in MapOutcomes :
          ret' = IF m = "raise" THEN Ret(<<>>, <<>>, "None")
                 ELSE Ret(EmptyAssignments(vehicles), <<>>, m)
    /\ pc' = "done"
    /\ UNCHANGED <<Inputs, sorted_requests, idx, assignments, log, vidx, routes,
                   raised, runNo, first, SeqVars, AuxVars>>

\* lines 812-814
RejectNoVehicles ==
    /\ pc = "loaded"
    /\ requests # <<>>
    /\ vehicles = <<>>
    /\ ret' = Ret(<<>>, <<>>, "None")
    /\ pc' = "done"
    /\ UNCHANGED <<Inputs, sorted_requests, idx, assignments, log, vidx, routes,
                   raised, runNo, first, SeqVars, AuxVars>>

\* lines 818, 66-73: the call of assign_requests_to_vehicles up to its loop
BeginAssign ==
    /\ pc = "loaded"
    /\ requests # <<>>
    /\ vehicles # <<>>
    /\ assignments' = EmptyAssignments(vehicles)
    /\ sorted_requests' = SortByPickup(requests)
    /\ idx' = 1
    /\ pc' = "assign"
    /\ UNCHANGED <<Inputs, log, vidx, routes, raised, ret, runNo, first, SeqVars, AuxVars>>

\* assign_requests_to_vehicles(requests, vehicles, ...) called on the snapshot
\* by a caller other than run_optimization: none of its emptiness tests
CallAssign ==
    /\ pc = "loaded"
    /\ assignments' = EmptyAssignments(vehicles)
    /\ sorted_requests' = SortByPickup(requests)
    /\ idx' = 1
    /\ pc' = "assign_direct"
    /\ UNCHANGED <<Inputs, log, vidx, routes, raised, ret, runNo, first, SeqVars, AuxVars>>

InLoop == pc \in {"assign", "assign_direct"} /\ idx <= Len(sorted_requests)

\* lines 76-78: the origin does not resolve, `continue`
SkipUnresolvable ==
    /\ InLoop
    /\ get_stop_coords(stops, sorted_requests[idx].originStopId) = None
    /\ idx' = idx + 1
    /\ UNCHANGED <<Inputs, pc, sorted_requests, assignments, log, vidx, routes,
                   raised, ret, runNo, first, SeqVars, AuxVars>>

\* faulty variant: the `else` is missing, the request is also force-assigned
PlaceBest_and_force ==
    /\ InLoop
    /\ get_stop_coords(stops, sorted_requests[idx].originStopId) # None
    /\ LET request == sorted_requests[idx]
           b == best_vehicle(stops, request, vehicles, assignments, max_wait, max_travel)
           placed == Place(assignments, vehicles[b].vehicleId, request)
       IN  /\ b # 0
           /\ assignments' = Place(placed,
                                   vehicles[least_loaded(vehicles, placed)].vehicleId,
                                   request)
           /\ log' = Append(log, LogEntry(request, vehicles, assignments, b, FALSE))
    /\ idx' = idx + 1
    /\ UNCHANGED <<Inputs, pc, sorted_requests, vidx, routes, raised, ret, runNo,
                   first, SeqVars, AuxVars>>

\* lines 80-106: the vehicle loop found a best vehicle
PlaceBest ==
    /\ InLoop
    /\ get_stop_coords(stops, sorted_requests[idx].originStopId) # None
    /\ LET request == sorted_requests[idx]
           b == best_vehicle(stops, request, vehicles, assignments, max_wait, max_travel)
       IN  /\ b # 0
           /\ assignments' = Place(assignments, vehicles[b].vehicleId, request)
           /\ log' = Append(log, LogEntry(request, vehicles, assignments, b, FALSE))
    /\ idx' = idx + 1
    /\ UNCHANGED <<Inputs, pc, sorted_requests, vidx, routes, raised, ret, runNo,
                   first, SeqVars, AuxVars>>

\* faulty variant: without a best vehicle the request is dropped
ForceAssign_dropped ==
    /\ InLoop
    /\ get_stop_coords(stops, sorted_requests[idx].originStopId) # None
    /\ best_vehicle(stops, sorted_requests[idx], vehicles, assignments,
                    max_wait, max_travel) = 0
    /\ vehicles # <<>>
    /\ idx' = idx + 1
    /\ UNCHANGED <<Inputs, pc, sorted_requests, assignments, log, vidx, routes,
                   raised, ret, runNo, first, SeqVars, AuxVars>>

\* lines 107-110: no best vehicle, force-assign to the least loaded one
ForceAssign ==
    /\ InLoop
    /\ get_stop_coords(stops, sorted_requests[idx].originStopId) # None
    /\ LET request == sorted_requests[idx]
           b == best_vehicle(stops, request, vehicles, assignments, max_wait, max_travel)
           l == least_loaded(vehicles, assignments)
       IN  /\ b = 0
           /\ vehicles # <<>>
           /\ assignments' = Place(assignments, vehicles[l].vehicleId, request)
           /\ log' = Append(log, LogEntry(request, vehicles, assignments, l, TRUE))
    /\ idx' = idx + 1
    /\ UNCHANGED <<Inputs, pc, sorted_requests, vidx, routes, raised, ret, runNo,
                   first, SeqVars, AuxVars>>

\* line 109 with no vehicle: min() of an empty list raises ValueError
AssignRaises ==
    /\ InLoop
    /\ get_stop_coords(stops, sorted_requests[idx].originStopId) # None
    /\ vehicles = <<>>
    /\ pc' = "assign_raised"
    /\ UNCHANGED <<Inputs, sorted_requests, idx, assignments, log, vidx, routes,
                   raised, ret, runNo, first, SeqVars, AuxVars>>

\* line 112: the direct call returns its Assignment
ReturnAssign ==
    /\ pc = "assign_direct"
    /\ idx > Len(sorted_requests)
    /\ ret' = Ret(assignments, <<>>, "None")
    /\ pc' = "returned"
    /\ UNCHANGED <<Inputs, sorted_requests, idx, assignments, log, vidx, routes,
                   raised, runNo, first, SeqVars, AuxVars>>

\* line 112, 826: assign_requests_to_vehicles returns, routes = {}
EndAssign ==
    /\ pc = "assign"
    /\ idx > Len(sorted_requests)
    /\ pc' = "route"
    /\ vidx' = 1
    /\ UNCHANGED <<Inputs, sorted_requests, idx, assignments, log, routes, raised,
                   ret, runNo, first, SeqVars, AuxVars>>

InRouteLoop == pc = "route" /\ vidx <= Len(vehicles)

\* lines 839-840: a vehicle with nothing assigned is not sequenced
SkipEmptyVehicle ==
    /\ InRouteLoop
    /\ assignments[vehicles[vidx].vehicleId] = <<>>
    /\ vidx' = vidx + 1
    /\ UNCHANGED <<Inputs, pc, sorted_requests, idx, assignments, log, routes,
                   raised, ret, runNo, first, SeqVars, AuxVars>>

\* faulty variant: no try/except around the call, the exception ends the run in the
\* handler of lines 863-867
RouteVehicle_unguarded ==
    /\ InRouteLoop
    /\ assignments[vehicles[vidx].vehicleId] # <<>>
    /\ \E outcome \in ProviderOutcomes :
          LET vehicle_id == vehicles[vidx].vehicleId
              result == optimize_route_with_location_service(
                            stops, assignments[vehicle_id], outcome)
          IN  IF result.raise
              THEN /\ raised' = raised \cup {vehicle_id}
                   /\ ret' = Ret(<<>>, <<>>, "None")
                   /\ pc' = "done"
                   /\ UNCHANGED <<routes, vidx>>
              ELSE /\ routes' = routes @@ (vehicle_id :> result)
                   /\ vidx' = vidx + 1
                   /\ UNCHANGED <<raised, ret, pc>>
    /\ UNCHANGED <<Inputs, sorted_requests, idx, assignments, log, runNo,
                   first, SeqVars, AuxVars>>

\* lines 831-838: sequencing of one vehicle, inside its own try/except
RouteVehicle ==
    /\ InRouteLoop
    /\ assignments[vehicles[vidx].vehicleId] # <<>>
    /\ \E outcome \in ProviderOutcomes :
          LET vehicle_id == vehicles[vidx].vehicleId
              result == optimize_route_with_location_service(
                            stops, assignments[vehicle_id], outcome)
          IN  /\ routes' = routes @@ (vehicle_id :> route_or_fallback(result))
              /\ raised' = IF result.raise THEN raised \cup {vehicle_id} ELSE raised
    /\ vidx' = vidx + 1
    /\ UNCHANGED <<Inputs, pc, sorted_requests, idx, assignments, log, ret, runNo,
                   first, SeqVars, AuxVars>>

EndRoute ==
    /\ pc = "route"
    /\ vidx > Len(vehicles)
    /\ pc' = "map"
    /\ UNCHANGED <<Inputs, sorted_requests, idx, assignments, log, vidx, routes,
                   raised, ret, runNo, first, SeqVars, AuxVars>>

\* lines 842-861: the map is created (or not) and the run returns; when
\* create_route_map raises, the handler returns assignments, routes, None
CreateMap ==
    /\ pc = "map"
    /\ \E m \in MapOutcomes :
          ret' = Ret(assignments, routes, IF m = "raise" THEN "None" ELSE m)
    /\ pc' = "done"
    /\ UNCHANGED <<Inputs, sorted_requests, idx, assignments, log, vidx, routes,
                   raised, runNo, first, SeqVars, AuxVars>>

Sequences(r) ==
    [id \in DOMAIN r |-> [has_keys |-> r[id].has_keys, waypoints |-> r[id].waypoints,
                          sequence |-> r[id].sequence]]

\* web_server.index: the next HTTP request runs run_optimization again, here on
\* the same snapshot and thresholds
Rerun ==
    /\ pc = "done"
    /\ runNo = 1
    /\ first' = [ran |-> TRUE, assignments |-> assignments,
                 sequences |-> Sequences(routes)]
    /\ runNo' = 2
    /\ pc' = "loaded"
    /\ sorted_requests' = <<>>
    /\ idx' = 0
    /\ assignments' = <<>>
    /\ log' = <<>>
    /\ vidx' = 0
    /\ routes' = <<>>
    /\ raised' = {}
    /\ ret' = NoRet
    /\ UNCHANGED <<Inputs, SeqVars, AuxVars>>

Next ==
    \/ ReturnEmpty
    \/ RejectNoVehicles
    \/ BeginAssign
    \/ CallAssign
    \/ SkipUnresolvable
    \/ PlaceBest
    \/ ForceAssign
    \/ AssignRaises
    \/ ReturnAssign
    \/ EndAssign
    \/ SkipEmptyVehicle
    \/ RouteVehicle
    \/ EndRoute
    \/ CreateMap
    \/ Rerun

Spec == Init /\ [][Next]_vars

\* run_optimization on snapshots with more requests than the fleet takes
\* without forcing: one request more, fewer kinds of request, and fleets
\* whose capacities and travel limit are used up
LoadedShapes ==
    { <<"B", "D", At(0)>>,
      <<"C", "D", At(5)>>,
      <<"D", "B", At(40)>>,
      <<"X", "B", NoneAt>> }

LoadedFleets ==
    { <<>>,
      <<Veh("v1", <<>>, <<>>, <<>>)>>,
      <<Veh("v1", <<0>>, <<4>>, <<2>>), Veh("v2", <<3>>, <<4>>, <<1>>)>> }

\* <<max_wait_minutes, max_travel_minutes>>: the defaults, a pair that two
\* of the requests meet exactly, and a travel limit below that of one request
LoadedThresholds == { <<15, 20>>, <<5, 12>>, <<5, 4>> }

LoadedInit ==
    /\ requests \in {MkRequests(sh) : sh \in SeqsUpTo(LoadedShapes, MaxReq + 1)}
    /\ vehicles \in LoadedFleets
    /\ stops \in StopStores
    /\ \E th \in LoadedThresholds : max_wait = th[1] /\ max_travel = th[2]
    /\ RunStart
    /\ runNo = 1
    /\ first = NoRun
    /\ batch = <<>>
    /\ local = NotCalled
    /\ remote = NotCalled
    /\ legacy = NotCalled
    /\ AuxIdle

LoadedSpec == LoadedInit /\ [][Next]_vars

\* run_optimization on snapshots whose instants lie exactly at, within and
\* beyond the wait limit of each other, with and without an instant
WaitShapes ==
    { <<"B", "D", At(0)>>,
      <<"C", "D", At(5)>>,
      <<"D", "B", At(40)>>,
      <<"B", "C", Absent>>,
      <<"X", "B", NoneAt>> }

WaitThresholds == { <<15, 20>>, <<5, 12>> }

WaitInit ==
    /\ requests \in {MkRequests(sh) : sh \in SeqsUpTo(WaitShapes, MaxReq)}
    /\ vehicles \in LoadedFleets
    /\ stops \in StopStores
    /\ \E th \in WaitThresholds : max_wait = th[1] /\ max_travel = th[2]
    /\ RunStart
    /\ runNo = 1
    /\ first = NoRun
    /\ batch = <<>>
    /\ local = NotCalled
    /\ remote = NotCalled
    /\ legacy = NotCalled
    /\ AuxIdle

WaitSpec == WaitInit /\ [][Next]_vars

(***************************************************************************)
(* One sequencing call on a batch, by each of the two routines             *)
(***************************************************************************)
\* a batch is a freely chosen head followed by pad generated requests that
\* resolve, all with an instant (minute 50 + j, after the head's) or all
\* without the key
PadStops == <<"B", "C", "D">>

PadRequest(j, timed, first_id) ==
    Req(first_id + j, PadStops[(j % 3) + 1], PadStops[((j + 1) % 3) + 1],
        IF timed THEN At(50 + j) ELSE Absent)

MkBatch(head, pad, timed) ==
    MkRequests(head) \o [j \in 1..pad |-> PadRequest(j, timed, Len(head))]

\* no pad, and the longest ones: those that pass the waypoint limit
PadSizes == {0, MaxPad - 1, MaxPad}

Batches ==
    {MkBatch(head, pad, timed) :
        head \in SeqsUpTo(ReqShapes, MaxHead), pad \in PadSizes, timed \in BOOLEAN}

SeqInit ==
    /\ requests = <<>>
    /\ vehicles = <<>>
    /\ stops \in StopStores
    /\ max_wait = 15
    /\ max_travel = 20
    /\ pc = "seq"
    /\ sorted_requests = <<>>
    /\ idx = 0
    /\ assignments = <<>>
    /\ log = <<>>
    /\ vidx = 0
    /\ routes = <<>>
    /\ raised = {}
    /\ ret = NoRet
    /\ runNo = 1
    /\ first = NoRun
    /\ batch \in Batches
    /\ local = NotCalled
    /\ remote = NotCalled
    /\ legacy = NotCalled
    /\ AuxIdle

RunVars == <<requests, vehicles, stops, max_wait, max_travel, pc, sorted_requests,
             idx, assignments, log, vidx, routes, raised, ret, runNo, first>>

\* _calculate_route_locally(vehicle_id, batch)
SequenceLocally ==
    /\ pc = "seq"
    /\ ~local.called
    /\ \E outcome \in ProviderOutcomes :
          local' = Called(outcome, calculate_route_locally(stops, batch, outcome))
    /\ UNCHANGED <<RunVars, AuxVars, batch, remote, legacy>>

\* then RouteCalculator().optimize_route(vehicle_id, requests) on the
\* serialized batch
SequenceRemotely ==
    /\ pc = "seq"
    /\ local.called
    /\ ~remote.called
    /\ \E outcome \in ProviderOutcomes :
          remote' = Called(outcome,
                           optimize_route(stops,
                                          [i \in 1..Len(batch) |-> serialize(batch[i])],
                                          outcome))
    /\ UNCHANGED <<RunVars, AuxVars, batch, local, legacy>>

\* then src/dynamic_route_optimizer.py: optimize_route_with_location_service
SequenceLegacy ==
    /\ pc = "seq"
    /\ remote.called
    /\ ~legacy.called
    /\ \E outcome \in ProviderOutcomes :
          legacy' = Called(outcome, legacy_optimize_route(stops, batch, outcome))
    /\ UNCHANGED <<RunVars, AuxVars, batch, local, remote>>

SeqNext ==
    \/ SequenceLocally
    \/ SequenceRemotely
    \/ SequenceLegacy

SeqSpec == SeqInit /\ [][SeqNext]_vars

\* one sequencing call on a long batch: an optional head request followed by
\* about as many generated requests as the dropoff offset of line 1058, so
\* that the index of the last pickup reaches and passes that offset
LongBatches ==
    {MkBatch(head, pad, timed) :
        head \in SeqsUpTo(ReqShapes, 1), pad \in {DropoffOffset, DropoffOffset + 2}, timed \in BOOLEAN}

LongInit ==
    /\ requests = <<>>
    /\ vehicles = <<>>
    /\ stops \in StopStores
    /\ max_wait = 15
    /\ max_travel = 20
    /\ pc = "seq"
    /\ sorted_requests = <<>>
    /\ idx = 0
    /\ assignments = <<>>
    /\ log = <<>>
    /\ vidx = 0
    /\ routes = <<>>
    /\ raised = {}
    /\ ret = NoRet
    /\ runNo = 1
    /\ first = NoRun
    /\ batch \in LongBatches
    /\ local = NotCalled
    /\ remote = NotCalled
    /\ legacy = NotCalled
    /\ AuxIdle

LongSpec == LongInit /\ [][SeqNext]_vars

(***************************************************************************)
(* The time filter: get_requests and the head of run_optimization, in      *)
(* routePlanning/dynamic_route_optimizer.py and in the first optimizer     *)
(* dynamic_route_optimizer.py.  Instants and bounds are whole minutes.     *)
(***************************************************************************)
MaxItems == 2
FilterTimes == 1..3
FilterStrings == {NoFilter, BadFilter} \cup {Filter(t) : t \in FilterTimes}

\* requestedPickupAt as stored: no attribute, a falsy value, a string that
\* strptime('%Y-%m-%d %H:%M:%S') parses or rejects, or a number of seconds
RawInstants ==
    { Absent,
      [k |-> "empty", t |-> 0],
      [k |-> "badstr", t |-> 0],
      [k |-> "str", t |-> 1],
      [k |-> "num", t |-> 2],
      [k |-> "str", t |-> 3] }

Tables ==
    {[i \in 1..Len(raw) |-> Req(i, "B", "D", raw[i])] : raw \in SeqsUpTo(RawInstants, MaxItems)}

\* lines 27-35 (both optimizers): the conversion of one stored instant
convert_pickup_at(pickup_at) ==
    CASE pickup_at.k = "str" -> At(pickup_at.t)
      [] pickup_at.k = "badstr" -> NoneAt
      [] pickup_at.k = "num" -> At(pickup_at.t)
      [] pickup_at.k = "empty" -> NoneAt
      [] OTHER -> pickup_at

convert_items(items) ==
    [i \in 1..Len(items) |->
        [items[i] EXCEPT !.requestedPickupAt = convert_pickup_at(@)]]

\* routePlanning get_requests lines 41-51: the test of one request when a
\* bound is given; start_time and end_time are None or <<minute>>
in_window(req, start_time, end_time) ==
    /\ Truthy(req.requestedPickupAt)
    /\ IF start_time # None /\ end_time # None
       THEN req.requestedPickupAt.t >= start_time[1] /\ req.requestedPickupAt.t <= end_time[1]
       ELSE IF start_time # None
            THEN req.requestedPickupAt.t >= start_time[1]
            ELSE req.requestedPickupAt.t <= end_time[1]

\* routePlanning get_requests lines 21-57
get_requests(items, start_time, end_time) ==
    LET reqs == convert_items(items)
        Keep(req) == in_window(req, start_time, end_time)
    IN  IF start_time # None \/ end_time # None
        THEN SelectSeq(reqs, Keep)
        ELSE reqs

\* the first optimizer's get_requests lines 41-46: a request with an instant
\* is dropped when it lies outside a given bound, every other one is kept
legacy_in_window(req, start_time, end_time) ==
    IF Truthy(req.requestedPickupAt)
    THEN /\ ~(start_time # None /\ req.requestedPickupAt.t < start_time[1])
         /\ ~(end_time # None /\ req.requestedPickupAt.t > end_time[1])
    ELSE TRUE

\* the first optimizer's get_requests lines 19-49
legacy_get_requests(items, start_time, end_time) ==
    LET reqs == convert_items(items)
        Keep(req) == legacy_in_window(req, start_time, end_time)
    IN  IF start_time # None \/ end_time # None
        THEN SelectSeq(reqs, Keep)
        ELSE reqs

\* what the head of run_optimization produced: the outcome, the stores read
\* so far and the request snapshot
Rejected(outcome, reads) == [outcome |-> outcome, reads |-> reads, requests |-> <<>>]
Loaded(reads, reqs) == [outcome |-> "loaded", reads |-> reads, requests |-> reqs]

\* datetime.strptime on a filter string that is given and well formed
strptime(s) == IF s.k = "ok" THEN <<s.t>> ELSE None

\* routePlanning run_optimization lines 760-799: parse the two strings (an
\* unparsable one returns {}, {}, None), swap reversed bounds, then scan
\* the request table and the vehicle table
run_optimization_head(start, end, items) ==
    IF start.k = "bad" THEN Rejected("error", {})
    ELSE IF end.k = "bad" THEN Rejected("error", {})
    ELSE LET s == strptime(start)
             e == strptime(end)
             swap == s # None /\ e # None /\ s[1] > e[1]
             start_time == IF swap THEN e ELSE s
             end_time == IF swap THEN s ELSE e
         IN  Loaded({"requests", "vehicles"}, get_requests(items, start_time, end_time))

\* the first optimizer's run_optimization lines 415-428: strptime is not
\* guarded, so an unparsable string raises ValueError out of the run; the
\* bounds are passed on in the order given
legacy_run_optimization_head(start, end, items) ==
    IF start.k = "bad" THEN Rejected("raise", {})
    ELSE IF end.k = "bad" THEN Rejected("raise", {})
    ELSE Loaded({"requests", "vehicles"},
                legacy_get_requests(items, strptime(start), strptime(end)))

\* no run of run_optimization is under way; position names the operation
\* under study
NoRunAt(position) ==
    /\ requests = <<>>
    /\ vehicles = <<>>
    /\ stops \in StopStores
    /\ max_wait = 15
    /\ max_travel = 20
    /\ pc = position
    /\ sorted_requests = <<>>
    /\ idx = 0
    /\ assignments = <<>>
    /\ log = <<>>
    /\ vidx = 0
    /\ routes = <<>>
    /\ raised = {}
    /\ ret = NoRet
    /\ runNo = 1
    /\ first = NoRun

SeqIdle ==
    /\ local = NotCalled
    /\ remote = NotCalled
    /\ legacy = NotCalled

FilterInit ==
    /\ NoRunAt("filter")
    /\ batch = <<>>
    /\ SeqIdle
    /\ table \in Tables
    /\ start_datetime \in FilterStrings
    /\ end_datetime \in FilterStrings
    /\ filter_calls = <<>>
    /\ FallbackIdle
    /\ ResolveIdle
    /\ WebIdle

\* the calls are made one after the other on the same table
Made(name) == name \in DOMAIN filter_calls
Record(name, after, result) ==
    /\ DOMAIN filter_calls = after
    /\ filter_calls' = filter_calls @@ (name :> result)
    /\ UNCHANGED <<RunVars, SeqVars, FallbackVars, ResolveVars, WebVars, table, start_datetime,
                   end_datetime>>

\* get_requests called with the bounds the well-formed strings denote
GetRequests ==
    Record("get_requests", {},
           get_requests(table, strptime(start_datetime), strptime(end_datetime)))

LegacyGetRequests ==
    Record("legacy_get_requests", {"get_requests"},
           legacy_get_requests(table, strptime(start_datetime), strptime(end_datetime)))

RunFiltered ==
    Record("run", {"get_requests", "legacy_get_requests"},
           run_optimization_head(start_datetime, end_datetime, table))

\* the same run with the two filter strings exchanged
RunFilteredReversed ==
    Record("run_reversed", {"get_requests", "legacy_get_requests", "run"},
           run_optimization_head(end_datetime, start_datetime, table))

LegacyRunFiltered ==
    Record("legacy_run", {"get_requests", "legacy_get_requests", "run", "run_reversed"},
           legacy_run_optimization_head(start_datetime, end_datetime, table))

LegacyRunFilteredReversed ==
    Record("legacy_run_reversed",
           {"get_requests", "legacy_get_requests", "run", "run_reversed", "legacy_run"},
           legacy_run_optimization_head(end_datetime, start_datetime, table))

FilterNext ==
    \/ GetRequests
    \/ LegacyGetRequests
    \/ RunFiltered
    \/ RunFilteredReversed
    \/ LegacyRunFiltered
    \/ LegacyRunFilteredReversed

FilterSpec == FilterInit /\ [][FilterNext]_vars

(***************************************************************************)
(* calculate_route_via_lambda: one remote invocation and the local         *)
(* fallback, step by step                                                  *)
(***************************************************************************)
\* lambda_client.invoke raises, or the Lambda service answers with an error
\* of the function (errorType: a timeout, a crash), or lambda_handler answers
InvokeFates == {"exception", "errorType", "answer"}

Status(code, body) == [kind |-> "status", statusCode |-> code, body |-> body]
\* the dictionary of lines 214-215: no waypoints, no sequence
BareResult == RouteResult("empty", 0, 0, FALSE, <<>>, <<>>)

\* route_calculator_lambda.py lines 6-34, on the payload of lines 192-195
lambda_handler(store, event_requests, outcome) ==
    IF event_requests = <<>>
    THEN Status(400, Raise)
    ELSE LET route_result == optimize_route(store, event_requests, outcome)
         IN  IF route_result.raise
             THEN Status(500, Raise)
             ELSE Status(200, route_result)

FallbackInit ==
    /\ NoRunAt("via")
    /\ batch \in Batches
    /\ SeqIdle
    /\ FilterIdle
    /\ lpc = "call"
    /\ lambda_response = NoResponse
    /\ attempts = [remote |-> 0, local |-> 0]
    /\ via_result = NotCalled
    /\ ResolveIdle
    /\ WebIdle

FallbackOthers == <<RunVars, SeqVars, FilterVars, ResolveVars, WebVars>>

\* lines 182-206: serialize, invoke, read the answer
InvokeLambda ==
    /\ lpc = "call"
    /\ attempts' = [attempts EXCEPT !.remote = @ + 1]
    /\ \E fate \in InvokeFates, outcome \in ProviderOutcomes :
          CASE fate = "exception" ->
                 /\ lambda_response' = [NoResponse EXCEPT !.kind = "exception"]
                 /\ lpc' = "except"
            [] fate = "errorType" ->
                 /\ lambda_response' = [NoResponse EXCEPT !.kind = "errorType"]
                 /\ lpc' = "dispatch"
            [] OTHER ->
                 /\ lambda_response' =
                       lambda_handler(stops, [i \in 1..Len(batch) |-> serialize(batch[i])],
                                      outcome)
                 /\ lpc' = "dispatch"
    /\ UNCHANGED <<FallbackOthers, via_result>>

\* lines 209-213: statusCode 200, the body is returned
ReturnBody ==
    /\ lpc = "dispatch"
    /\ lambda_response.kind = "status"
    /\ lambda_response.statusCode = 200
    /\ via_result' = Called("ok", lambda_response.body)
    /\ lpc' = "done"
    /\ UNCHANGED <<FallbackOthers, lambda_response, attempts>>

\* lines 214-216: any other statusCode, the bare dictionary is returned
ReturnBare ==
    /\ lpc = "dispatch"
    /\ lambda_response.kind = "status"
    /\ lambda_response.statusCode # 200
    /\ via_result' = Called("ok", BareResult)
    /\ lpc' = "done"
    /\ UNCHANGED <<FallbackOthers, lambda_response, attempts>>

\* lines 217-221: errorType, _calculate_route_locally is called inside the
\* try block; what it raises is caught by the handler of line 227
LocalInTry ==
    /\ lpc = "dispatch"
    /\ lambda_response.kind = "errorType"
    /\ attempts' = [attempts EXCEPT !.local = @ + 1]
    /\ \E outcome \in ProviderOutcomes :
          LET result == calculate_route_locally(stops, batch, outcome)
          IN  IF result.raise
              THEN lpc' = "except" /\ UNCHANGED via_result
              ELSE lpc' = "done" /\ via_result' = Called(outcome, result)
    /\ UNCHANGED <<FallbackOthers, lambda_response>>

\* lines 227-231: the handler calls _calculate_route_locally; what that call
\* raises leaves calculate_route_via_lambda
LocalInHandler ==
    /\ lpc = "except"
    /\ attempts' = [attempts EXCEPT !.local = @ + 1]
    /\ \E outcome \in ProviderOutcomes :
          via_result' = Called(outcome, calculate_route_locally(stops, batch, outcome))
    /\ lpc' = "done"
    /\ UNCHANGED <<FallbackOthers, lambda_response>>

FallbackNext ==
    \/ InvokeLambda
    \/ ReturnBody
    \/ ReturnBare
    \/ LocalInTry
    \/ LocalInHandler

FallbackSpec == FallbackInit /\ [][FallbackNext]_vars

(***************************************************************************)
(* Stop resolution: the get_stop_coords calls of one sequencing call, one  *)
(* call at a time, against a stops table that another party may change    *)
(***************************************************************************)
\* _calculate_route_locally lines 1030-1052: the stop ids in the order the
\* two loops resolve them, the origins of the sorted requests and then
\* their destinations; none when the sort raises
stops_to_resolve(reqs) ==
    IF reqs = <<>> \/ local_sort_raises(reqs) THEN <<>>
    ELSE LET sorted == sort_by_pickup_key(reqs)
         IN  [i \in 1..Len(sorted) |-> sorted[i].originStopId]
             \o [i \in 1..Len(sorted) |-> sorted[i].destStopId]

ResolveInit ==
    /\ NoRunAt("resolve")
    /\ batch \in {MkRequests(head) : head \in SeqsUpTo(ReqShapes, MaxHead)}
    /\ SeqIdle
    /\ FilterIdle
    /\ FallbackIdle
    /\ todo = stops_to_resolve(batch)
    /\ get_item_calls = [s \in StopIds |-> 0]
    /\ resolutions = <<>>
    /\ WebIdle

ResolveOthers ==
    <<requests, vehicles, max_wait, max_travel, pc, sorted_requests, idx, assignments,
      log, vidx, routes, raised, ret, runNo, first, SeqVars, FilterVars, FallbackVars,
      WebVars>>

\* get_stop_coords lines 645-657: every call reads the stops table
ResolveStop ==
    /\ pc = "resolve"
    /\ todo # <<>>
    /\ get_item_calls' = [get_item_calls EXCEPT ![Head(todo)] = @ + 1]
    /\ resolutions' = Append(resolutions,
                             [stop_id |-> Head(todo),
                              coords |-> get_stop_coords(stops, Head(todo))])
    /\ todo' = Tail(todo)
    /\ UNCHANGED <<ResolveOthers, stops>>

\* the stops table belongs to the store: an item of it is deleted by
\* another party while the sequencing call is under way
StopDeleted ==
    /\ pc = "resolve"
    /\ todo # <<>>
    /\ \E s \in DOMAIN stops \cap {"B", "D"} :
          stops' = [id \in DOMAIN stops \ {s} |-> stops[id]]
    /\ UNCHANGED <<ResolveOthers, ResolveVars>>

ResolveNext ==
    \/ ResolveStop
    \/ StopDeleted

ResolveSpec == ResolveInit /\ [][ResolveNext]_vars

(***************************************************************************)
(* web_server.py: two HTTP requests handled at the same time by index() on *)
(* the module's optimizer (the Flask development server serves each        *)
(* request in a thread of its own)                                         *)
(***************************************************************************)
MaxClock == 2
Handlers == {"h1", "h2"}

\* the request table while the server runs, and the time windows of the
\* query strings
WebTable ==
    <<Req(1, "B", "D", [k |-> "str", t |-> 1]), Req(2, "C", "D", [k |-> "str", t |-> 3])>>
Windows == {<<NoFilter, NoFilter>>, <<Filter(1), Filter(2)>>, <<Filter(3), Filter(3)>>}

\* index() before run_optimization is called
Arrived(window) ==
    [pc |-> "run", window |-> window, result |-> <<>>, map_file |-> None, served |-> None]

WebInit ==
    /\ NoRunAt("web")
    /\ batch = <<>>
    /\ SeqIdle
    /\ table = WebTable
    /\ start_datetime = NoFilter
    /\ end_datetime = NoFilter
    /\ filter_calls = <<>>
    /\ FallbackIdle
    /\ ResolveIdle
    /\ web \in [Handlers -> {Arrived(w) : w \in Windows}]
    /\ files = <<>>
    /\ now = 0
    /\ current_map_file = None

WebOthers == <<RunVars, SeqVars, FilterVars, FallbackVars, ResolveVars>>

\* time passes
Tick ==
    /\ pc = "web"
    /\ now < MaxClock
    /\ now' = now + 1
    /\ UNCHANGED <<WebOthers, web, files, current_map_file>>

\* web_server.py line 24 down to the call of create_route_map: the run
\* selects the requests of its window; its Assignment and routes are those
\* of this selection
RunForRequest(h) ==
    /\ pc = "web"
    /\ web[h].pc = "run"
    /\ web' = [web EXCEPT ![h].pc = "name",
                          ![h].result =
                              run_optimization_head(web[h].window[1], web[h].window[2],
                                                    table).requests]
    /\ UNCHANGED <<WebOthers, files, now, current_map_file>>

\* create_route_map line 618: the file is named after the current second
NameMapFile(h) ==
    /\ pc = "web"
    /\ web[h].pc = "name"
    /\ web' = [web EXCEPT ![h].pc = "save", ![h].map_file = <<now>>]
    /\ UNCHANGED <<WebOthers, files, now, current_map_file>>

\* create_route_map line 619: m.save(map_file) writes the file, replacing
\* a file of that name
SaveMap(h) ==
    /\ pc = "web"
    /\ web[h].pc = "save"
    /\ files' = [n \in DOMAIN files \cup {web[h].map_file[1]} |->
                    IF n = web[h].map_file[1] THEN web[h].result ELSE files[n]]
    /\ web' = [web EXCEPT ![h].pc = "returned"]
    /\ UNCHANGED <<WebOthers, now, current_map_file>>

\* web_server.py lines 24-25: run_optimization has returned
SetCurrentMapFile(h) ==
    /\ pc = "web"
    /\ web[h].pc = "returned"
    /\ current_map_file' = web[h].map_file
    /\ web' = [web EXCEPT ![h].pc = "send"]
    /\ UNCHANGED <<WebOthers, files, now>>

\* web_server.py lines 27-29: send_file reads the file of that name
SendFile(h) ==
    /\ pc = "web"
    /\ web[h].pc = "send"
    /\ web[h].map_file[1] \in DOMAIN files
    /\ web' = [web EXCEPT ![h].pc = "done", ![h].served = <<files[web[h].map_file[1]]>>]
    /\ UNCHANGED <<WebOthers, files, now, current_map_file>>

WebNext ==
    \/ Tick
    \/ \E h \in Handlers : RunForRequest(h)
    \/ \E h \in Handlers : NameMapFile(h)
    \/ \E h \in Handlers : SaveMap(h)
    \/ \E h \in Handlers : SetCurrentMapFile(h)
    \/ \E h \in Handlers : SendFile(h)

WebSpec == WebInit /\ [][WebNext]_vars

(***************************************************************************)
(* Properties                                                              *)
(***************************************************************************)
\* a request's origin resolves: the stop is in the store and its coordinates
\* are not zero/zero
OriginResolves(r) ==
    /\ r.originStopId \in DOMAIN stops
    /\ ~(stops[r.originStopId].stop_lat = 0 /\ stops[r.originStopId].stop_lon = 0)

DestResolves(r) ==
    /\ r.destStopId \in DOMAIN stops
    /\ ~(stops[r.destStopId].stop_lat = 0 /\ stops[r.destStopId].stop_lon = 0)

AssignedIn(asg) == UNION {Range(asg[id]) : id \in DOMAIN asg}

\* assign_requests_to_vehicles has returned its Assignment
AssignFinished ==
    \/ pc \in {"route", "map", "returned"}
    \/ (pc = "done" /\ requests # <<>> /\ vehicles # <<>>)

\* C1: total coverage. After assign_requests_to_vehicles finishes on a
\* non-empty fleet, the requests in the vehicles' lists are exactly the input
\* requests whose origin stop resolves.
C1_TotalCoverage ==
    (vehicles # <<>> /\ AssignFinished)
    => /\ AssignedIn(assignments) = {r \in Range(requests) : OriginResolves(r)}
       /\ ret.returned =>
             AssignedIn(ret.assignments) = {r \in Range(requests) : OriginResolves(r)}

C1_Witness ==
    /\ pc = "returned"
    /\ Len(requests) = MaxReq
    /\ \E r \in Range(requests) : ~OriginResolves(r)
    /\ \E i \in 1..Len(log) : log[i].forced
    /\ \E i \in 1..Len(log) : ~log[i].forced

\* the places (vehicle, position) where request r appears in Assignment asg
Places(asg, r) ==
    {p \in UNION {{<<id, i>> : i \in 1..Len(asg[id])} : id \in DOMAIN asg} :
        asg[p[1]][p[2]] = r}

C3_CapacityUnlessForced ==
    \A i \in 1..Len(log) :
        /\ log[i].load >= log[i].capacity => (log[i].forced /\ log[i].feasible = {})
        /\ log[i].feasible # {} => log[i].load + 1 <= log[i].capacity

\* C4: precedence. In the Stop Event sequence a sequencing routine returns,
\* the pickup of a request is strictly before the dropoff of the same request.
PickupBeforeDropoff(sequence) ==
    \A i \in 1..Len(sequence), j \in 1..Len(sequence) :
        (/\ sequence[i].type = "pickup"
         /\ sequence[j].type = "dropoff"
         /\ sequence[i].requestId = sequence[j].requestId) => i < j

C4_Precedence ==
    \A call \in {local, remote, legacy} :
        (call.called /\ ~call.result.raise) => PickupBeforeDropoff(call.result.sequence)

HasBothEvents(sequence) ==
    \E i \in 1..Len(sequence), j \in 1..Len(sequence) :
        /\ sequence[i].type = "pickup"
        /\ sequence[j].type = "dropoff"
        /\ sequence[i].requestId = sequence[j].requestId

C4_Witness ==
    /\ local.called /\ remote.called /\ legacy.called
    /\ Len(batch) > 2
    /\ HasBothEvents(local.result.sequence)
    /\ HasBothEvents(remote.result.sequence)
    /\ HasBothEvents(legacy.result.sequence)
    /\ \E r \in Range(batch) : ~Truthy(r.requestedPickupAt)

\* the priority-sorted Stop Events of each routine before truncation
SerializedBatch == [i \in 1..Len(batch) |-> serialize(batch[i])]
LocalStops == all_stops_sorted(stops, sort_by_pickup_key(batch), "local")
RemoteStops ==
    all_stops_sorted(stops, sort_by_pickup_key(SerializedBatch), "remote")

IsCappedPrefix(result, full) ==
    /\ Len(result.waypoints) <= 23
    /\ Len(result.sequence) <= 23
    /\ Len(full) > 23 =>
          /\ result.sequence = [i \in 1..23 |-> full[i]]
          /\ result.waypoints = [i \in 1..23 |-> full[i].coords]

\* C5: waypoint cap. A sequencing output has at most 23 waypoints and 23 Stop
\* Events; a truncated output is the first 23 entries of the sorted lists.
C5_WaypointCap ==
    /\ (local.called /\ ~local.result.raise) => IsCappedPrefix(local.result, LocalStops)
    /\ (remote.called /\ ~remote.result.raise) => IsCappedPrefix(remote.result, RemoteStops)

C5_Witness ==
    /\ local.called /\ ~local.result.raise
    /\ remote.called /\ ~remote.result.raise
    /\ Len(LocalStops) > 23 /\ Len(local.result.sequence) = 23
    /\ Len(RemoteStops) > 23 /\ Len(remote.result.waypoints) = 23

DegradedLike(call, succeeded) ==
    (/\ call.called
     /\ call.outcome = "error"
     /\ ~succeeded.raise
     /\ Len(succeeded.waypoints) >= 2)
    => /\ ~call.result.raise
       /\ call.result.distance = 0
       /\ call.result.duration = 0
       /\ call.result.route = "empty"
       /\ call.result.has_keys
       /\ call.result.waypoints = succeeded.waypoints
       /\ call.result.sequence = succeeded.sequence

\* C6: degraded fallback. When the provider call fails on two or more
\* waypoints the routine does not raise: it returns distance 0, duration 0, an
\* empty route, and the waypoints and sequence of the successful call.
C6_DegradedFallback ==
    /\ DegradedLike(local, calculate_route_locally(stops, batch, "ok"))
    /\ DegradedLike(remote, optimize_route(stops, SerializedBatch, "ok"))

C6_Witness ==
    /\ local.called /\ local.outcome = "error" /\ Len(local.result.waypoints) >= 2
    /\ remote.called /\ remote.outcome = "error" /\ Len(remote.result.waypoints) >= 2
    /\ calculate_route_locally(stops, batch, "ok").distance > 0

MentionedIn(r, rts) ==
    \E id \in DOMAIN rts : \E i \in 1..Len(rts[id].sequence) :
        rts[id].sequence[i].requestId = r.requestId

\* C8: a request whose origin stop does not resolve is in no vehicle's list,
\* is never placed or force-assigned, and has no Stop Event in any route.
C8_UnresolvableSkipped ==
    \A r \in Range(requests) :
        ~OriginResolves(r) =>
            /\ r \notin AssignedIn(assignments)
            /\ r \notin AssignedIn(ret.assignments)
            /\ \A i \in 1..Len(log) : log[i].requestId # r.requestId
            /\ ~MentionedIn(r, routes)
            /\ ~MentionedIn(r, ret.routes)

C8_Witness ==
    /\ pc = "done"
    /\ \E r \in Range(requests) : r.originStopId \notin DOMAIN stops
    /\ \E r \in Range(requests) :
          r.originStopId \in DOMAIN stops /\ ~OriginResolves(r)
    /\ \E id \in DOMAIN ret.routes : ret.routes[id].sequence # <<>>

NonEmptyVehicles == {id \in DOMAIN assignments : assignments[id] # <<>>}

\* C9: failure isolation. When sequencing raises for a vehicle, the vehicle
\* gets a route of distance 0 and duration 0, every other vehicle with
\* requests is still sequenced, and the run returns the whole Assignment with
\* a route for every vehicle that has requests.
C9_FailureIsolation ==
    raised # {} =>
        /\ \A id \in raised :
              /\ id \in DOMAIN routes
              /\ routes[id].distance = 0
              /\ routes[id].duration = 0
        /\ pc \in {"map", "done"} =>
              /\ DOMAIN routes = NonEmptyVehicles
              /\ \A id \in NonEmptyVehicles \ raised :
                    \E outcome \in ProviderOutcomes :
                        routes[id] = calculate_route_locally(stops, assignments[id], outcome)
        /\ pc = "done" =>
              /\ ret.returned
              /\ ret.assignments = assignments
              /\ AssignedIn(ret.assignments) = {r \in Range(requests) : OriginResolves(r)}
              /\ ret.routes = routes

C9_Witness ==
    /\ pc = "done"
    /\ raised # {}
    /\ \E id \in NonEmptyVehicles \ raised :
          ret.routes[id].has_keys /\ ret.routes[id].distance > 0

\* C10: the Assignment has exactly the fleet's vehicle ids as keys; with no
\* requests every list is empty and nothing raises, from
\* assign_requests_to_vehicles and from run_optimization.
C10_FleetKeys ==
    /\ pc \in {"assign", "assign_direct", "route", "map", "returned"}
          => DOMAIN assignments = VehicleIds
    /\ ret.returned =>
          /\ DOMAIN ret.assignments = VehicleIds
          /\ requests = <<>> => \A id \in VehicleIds : ret.assignments[id] = <<>>
    /\ requests = <<>> => pc # "assign_raised"
    /\ (requests = <<>> /\ pc \in {"done", "returned"}) => ret.returned

\* C11: an empty vehicle set is rejected up front. With zero vehicles
\* run_optimization never enters the assignment loop, the routing loop or the
\* map step of a successful run, and it returns the error outcome (empty
\* assignments, empty routes, no map file), with or without requests.
C11_EmptyFleetRejected ==
    vehicles = <<>> =>
        /\ pc \notin {"assign", "route", "map"}
        /\ pc = "done" => ret = Ret(<<>>, <<>>, "None")

\* the spec's scenario: one vehicle of capacity 20, maxWaitMinutes = 15 (and
\* the default maxTravelMinutes = 20), three requests that resolve, with
\* pickup instants 08:00, 08:05 and 08:40
SingleVehicleScenario ==
    /\ Len(vehicles) = 1
    /\ Get(vehicles[1].capacity, DefaultCapacity) = 20
    /\ max_wait = 15
    /\ max_travel = 20
    /\ Len(requests) = 3
    /\ \A r \in Range(requests) : OriginResolves(r) /\ DestResolves(r)
    /\ {r.requestedPickupAt : r \in Range(requests)} = {At(0), At(5), At(40)}

\* C12: with one vehicle every request whose origin resolves ends up on that
\* vehicle, whatever the thresholds; in the scenario the 08:00 and 08:05
\* requests are placed by the feasible path and the 08:40 request is blocked
\* by the waiting-time test and force-assigned, so the vehicle holds all three.
C12_SingleVehicle ==
    (Len(vehicles) = 1 /\ AssignFinished) =>
        LET v == vehicles[1].vehicleId
        IN  /\ Range(assignments[v]) = {r \in Range(requests) : OriginResolves(r)}
            /\ SingleVehicleScenario =>
                  /\ Len(assignments[v]) = 3
                  /\ \A i \in 1..3 :
                        assignments[v][i].requestedPickupAt = At(<<0, 5, 40>>[i])
                  /\ Len(log) = 3
                  /\ ~log[1].forced
                  /\ ~log[2].forced
                  /\ log[3].forced
                  /\ log[3].feasible = {}
                  \* only the waiting time blocks the third request: 35 and
                  \* 40 minutes exceed 15; 2 < 20 requests; 6 stops of 3
                  \* minutes stay within maxTravelMinutes
                  /\ \E j \in 1..2 :
                        assignments[v][3].requestedPickupAt.t
                            - assignments[v][j].requestedPickupAt.t > max_wait
                  /\ 2 < 20
                  /\ 6 * 3 <= max_travel

C12_Witness ==
    /\ SingleVehicleScenario
    /\ pc = "done"
    /\ Len(ret.assignments["v1"]) = 3
    /\ requests[1].requestedPickupAt = At(40)

\* every vehicle has capacity 1 and there are as many requests whose origin
\* resolves as vehicles
CapacityOneEach ==
    /\ vehicles # <<>>
    /\ \A i \in 1..Len(vehicles) : Get(vehicles[i].capacity, DefaultCapacity) = 1
    /\ Cardinality({k \in 1..Len(requests) : OriginResolves(requests[k])})
          = Len(vehicles)

\* every origin is at the same distance from all the vehicles
Equidistant ==
    \A r \in Range(requests) : \A i \in 1..Len(vehicles), j \in 1..Len(vehicles) :
        OriginResolves(r) =>
            calculate_distance(<<Get(vehicles[i].longitude, 0), Get(vehicles[i].latitude, 0)>>,
                               get_stop_coords(stops, r.originStopId))
              = calculate_distance(<<Get(vehicles[j].longitude, 0), Get(vehicles[j].latitude, 0)>>,
                                   get_stop_coords(stops, r.originStopId))

\* the requests whose origin resolves, in the order the loop takes them
ResolvableInOrder == SelectSeq(SortByPickup(requests), OriginResolves)

\* C13: capacity 1 each and as many origin-resolvable requests as vehicles:
\* each vehicle receives exactly one request; with equidistant origins the
\* k-th request in pickup order goes to the k-th vehicle of the fleet, and the
\* repeated run gives the same vehicle to every request.
C13_CapacityOneTieBreak ==
    (CapacityOneEach /\ AssignFinished) =>
        /\ \A id \in VehicleIds : Len(assignments[id]) = 1
        /\ Equidistant =>
              \A k \in 1..Len(vehicles) :
                  assignments[vehicles[k].vehicleId] = <<ResolvableInOrder[k]>>
        /\ (runNo = 2 /\ pc = "done") => assignments = first.assignments

C13_Witness ==
    /\ CapacityOneEach
    /\ Equidistant
    /\ Len(vehicles) = 2
    /\ Len(requests) = 2
    /\ requests[1].originStopId # requests[2].originStopId
    /\ \A r \in Range(requests) : DestResolves(r)
    /\ runNo = 2
    /\ pc = "done"
    /\ \A id \in VehicleIds : Len(ret.assignments[id]) = 1

\* the bounds a direct call of get_requests is given
StartBound == strptime(start_datetime)
EndBound == strptime(end_datetime)

\* the selection the time filter is to make of the stored items: every item
\* without bounds; with a bound, the items whose instant is present and lies
\* in the inclusive range, a missing bound leaving its side open
InRange(req) ==
    /\ Truthy(req.requestedPickupAt)
    /\ StartBound # None => StartBound[1] <= req.requestedPickupAt.t
    /\ EndBound # None => req.requestedPickupAt.t <= EndBound[1]

Selection ==
    IF StartBound = None /\ EndBound = None
    THEN convert_items(table)
    ELSE SelectSeq(convert_items(table), InRange)

\* C14: with both bounds a request is returned iff its instant lies in the
\* inclusive range; with one bound only that bound is enforced; requests
\* without (or with an unparsable) instant are excluded whenever a bound is
\* given; without bounds every request is returned -- in both optimizers.
C14_TimeFilter ==
    /\ Made("get_requests") => filter_calls["get_requests"] = Selection
    /\ Made("legacy_get_requests") => filter_calls["legacy_get_requests"] = Selection

Malformed == start_datetime.k = "bad" \/ end_datetime.k = "bad"
RunCalls == {"run", "run_reversed", "legacy_run", "legacy_run_reversed"}

\* C15: when the start or the end string does not parse, run_optimization
\* returns the error outcome, has read neither the request store nor the
\* vehicle store nor the stop store, and does not raise -- in both optimizers.
C15_MalformedRejected ==
    Malformed =>
        \A name \in RunCalls :
            Made(name) =>
                /\ filter_calls[name].outcome = "error"
                /\ filter_calls[name].reads = {}

StartsAfterEnd ==
    /\ start_datetime.k = "ok"
    /\ end_datetime.k = "ok"
    /\ start_datetime.t > end_datetime.t

\* C16: run_optimization(start, end) with start later than end selects
\* exactly the requests that run_optimization(end, start) selects (and so
\* hands the same requests to the assignment), namely those of the
\* inclusive range [end, start] -- in both optimizers.
C16_ReversedBoundsSwapped ==
    StartsAfterEnd =>
        /\ Made("run_reversed") =>
              /\ filter_calls["run"] = filter_calls["run_reversed"]
              /\ filter_calls["run"].outcome = "loaded"
              /\ filter_calls["run"].requests =
                    get_requests(table, strptime(end_datetime), strptime(start_datetime))
        /\ Made("legacy_run_reversed") =>
              /\ filter_calls["legacy_run"] = filter_calls["legacy_run_reversed"]
              /\ filter_calls["legacy_run"].outcome = "loaded"

RemoteFailed ==
    \/ lambda_response.kind \in {"exception", "errorType"}
    \/ lambda_response.kind = "status" /\ lambda_response.statusCode # 200

\* C17: in calculate_route_via_lambda every failed remote attempt (an
\* invocation exception, a Lambda error response, a non-200 status) is
\* followed by exactly one local sequencing attempt, after which a Route
\* Result is returned; there is never a second remote or a second local
\* attempt, and no path ends in an exception.
C17_RemoteThenLocal ==
    /\ attempts.remote <= 1
    /\ attempts.local <= 1
    /\ lpc = "done" =>
          /\ attempts.remote = 1
          /\ ~via_result.result.raise
          /\ RemoteFailed => attempts.local = 1

\* C18: within one run the stop resolver is queried at most once per stop
\* identifier, and every later resolution of an identifier returns the
\* result of the first lookup of it.
C18_StopCoordinateCache ==
    /\ \A s \in StopIds : get_item_calls[s] <= 1
    /\ \A i, j \in 1..Len(resolutions) :
          (i < j /\ resolutions[i].stop_id = resolutions[j].stop_id)
              => resolutions[j].coords = resolutions[i].coords

\* C19: when two runs execute concurrently on the shared optimizer, the map
\* file a run has written and returned holds that run's own Assignment and
\* routes, and the run is served its own output: no interleaving lets one
\* run overwrite or be served the other's output.
C19_IndependentRuns ==
    \A h \in DOMAIN web :
        /\ web[h].pc \in {"returned", "send"} => files[web[h].map_file[1]] = web[h].result
        /\ web[h].pc = "done" => web[h].served = <<web[h].result>>

\* the cost of appending the request being processed to vehicle i
CostOn(i) ==
    calculate_assignment_cost(stops, sorted_requests[idx], vehicles[i],
                              assignments[vehicles[i].vehicleId])

FeasibleNow ==
    FeasibleSet(sorted_requests[idx], vehicles, assignments, max_wait, max_travel)

\* the feasible vehicles no feasible vehicle is cheaper than
Cheapest == {i \in FeasibleNow : \A j \in FeasibleNow : ~CostLess(CostOn(j), CostOn(i))}

\* C20: whenever at least one vehicle is feasible for the request being
\* processed, the request is appended to the feasible vehicle of minimum
\* cost, the first such vehicle in fleet order, and to no other vehicle.
C20_MinCostFeasible ==
    [][(InLoop /\ assignments' # assignments /\ FeasibleNow # {})
          => assignments' = Place(assignments, vehicles[SetMin(Cheapest)].vehicleId,
                                  sorted_requests[idx])]_vars

\* the number of requests vehicle i held when placement k of the log was
\* decided: every placement of the loop is one entry of the log
LoadBefore(k, i) ==
    Cardinality({j \in 1..(k - 1) : log[j].vehicleId = vehicles[i].vehicleId})

\* the vehicles holding the fewest requests when placement k was decided
Fewest(k) ==
    {i \in 1..Len(vehicles) : \A j \in 1..Len(vehicles) : LoadBefore(k, i) <= LoadBefore(k, j)}

\* C21: when no vehicle is feasible for an origin-resolvable request, the
\* request is appended to the vehicle holding the fewest requests, the first
\* such vehicle in fleet order, whatever its capacity and the wait and
\* travel limits.
C21_ForcedToLeastLoaded ==
    \A k \in 1..Len(log) :
        log[k].feasible = {} =>
            /\ log[k].forced
            /\ log[k].vehicleId = vehicles[SetMin(Fewest(k))].vehicleId
            /\ log[k].load = LoadBefore(k, SetMin(Fewest(k)))

\* one run with a forced placement decided among several vehicles of the
\* same fewest count, and one on a vehicle at capacity that is not the first
\* of the fleet
C21_Witness ==
    /\ AssignFinished
    /\ \E k \in 1..Len(log) :
          /\ log[k].feasible = {}
          /\ Cardinality(Fewest(k)) >= 2
    /\ \E k \in 1..Len(log) :
          /\ log[k].feasible = {}
          /\ log[k].vehicleId # vehicles[1].vehicleId
          /\ log[k].load >= log[k].capacity

IndexOf(vehicle_id) == CHOOSE i \in 1..Len(vehicles) : vehicles[i].vehicleId = vehicle_id

\* the requests vehicle i held when placement k of the log was decided, and
\* the request that placement k appended
HeldBefore(k, i) == SubSeq(assignments[vehicles[i].vehicleId], 1, LoadBefore(k, i))
Placed(k) == assignments[log[k].vehicleId][log[k].load + 1]

\* the instant of r is within max_wait minutes of every known instant in held
WithinWait(r, held) ==
    \A j \in 1..Len(held) :
        Truthy(held[j].requestedPickupAt) =>
            Abs(r.requestedPickupAt.t - held[j].requestedPickupAt.t) <= max_wait

\* vehicle i passed the capacity test and the travel test at placement k
RoomAt(k, i) ==
    /\ LoadBefore(k, i) < Get(vehicles[i].capacity, DefaultCapacity)
    /\ LoadBefore(k, i) = 0 \/ (LoadBefore(k, i) + 1) * 2 * 3 <= max_travel

\* C22: a request with a known instant is placed by the non-forced path on a
\* vehicle only if its instant differs by at most max_wait minutes from every
\* known instant already on that vehicle; a difference of exactly max_wait
\* does not block, and a request without instant is never blocked by the
\* wait test (a vehicle is then feasible as soon as capacity and travel
\* allow).
C22_WaitFeasibility ==
    \A k \in 1..Len(log) :
        /\ log[k].load = LoadBefore(k, IndexOf(log[k].vehicleId))
        /\ (~log[k].forced /\ Truthy(Placed(k).requestedPickupAt))
              => WithinWait(Placed(k), HeldBefore(k, IndexOf(log[k].vehicleId)))
        /\ \A i \in 1..Len(vehicles) :
              (\/ ~Truthy(Placed(k).requestedPickupAt)
               \/ WithinWait(Placed(k), HeldBefore(k, i)))
                  => (i \in log[k].feasible <=> RoomAt(k, i))
        /\ \A i \in log[k].feasible :
              Truthy(Placed(k).requestedPickupAt) => WithinWait(Placed(k), HeldBefore(k, i))

\* a non-forced placement next to a request exactly max_wait minutes away,
\* in a run that also placed a request without instant
C22_Witness ==
    /\ AssignFinished
    /\ \E k \in 1..Len(log) :
          /\ ~log[k].forced
          /\ Truthy(Placed(k).requestedPickupAt)
          /\ \E j \in 1..log[k].load :
                LET held == assignments[log[k].vehicleId][j].requestedPickupAt
                IN  /\ Truthy(held)
                    /\ Abs(Placed(k).requestedPickupAt.t - held.t) = max_wait
    /\ \E k \in 1..Len(log) : ~Truthy(Placed(k).requestedPickupAt)

\* vehicle i passed the capacity test and the wait test at placement k
FitsAt(k, i) ==
    /\ LoadBefore(k, i) < Get(vehicles[i].capacity, DefaultCapacity)
    /\ Truthy(Placed(k).requestedPickupAt) => WithinWait(Placed(k), HeldBefore(k, i))

\* C23: a vehicle with load n >= 1 is travel-infeasible for a request exactly
\* when (n + 1) * 2 * 3 > max_travel, and a vehicle with load 0 is
\* travel-feasible for every max_travel, also below 6.
C23_TravelFeasibility ==
    \A k \in 1..Len(log) :
        \A i \in 1..Len(vehicles) :
            LET n == LoadBefore(k, i)
            IN  /\ (n >= 1 /\ (n + 1) * 2 * 3 > max_travel) => i \notin log[k].feasible
                /\ (n >= 1 /\ (n + 1) * 2 * 3 <= max_travel /\ FitsAt(k, i))
                      => i \in log[k].feasible
                /\ (n = 0 /\ FitsAt(k, i)) => i \in log[k].feasible

\* with a travel limit below 6 a request is placed on an empty vehicle by the
\* non-forced path, and the next one finds that vehicle travel-infeasible
C23_Witness ==
    /\ AssignFinished
    /\ max_travel < 6
    /\ \E k \in 1..Len(log) :
          /\ ~log[k].forced
          /\ log[k].load = 0
          /\ \E m \in (k + 1)..Len(log) :
                /\ LoadBefore(m, IndexOf(log[k].vehicleId)) >= 1
                /\ FitsAt(m, IndexOf(log[k].vehicleId))
                /\ IndexOf(log[k].vehicleId) \notin log[m].feasible

\* the position of a request in the input list
InputPosition(r) == CHOOSE p \in 1..Len(requests) : requests[p] = r

\* a comes before b in pickup order: a missing instant is the earliest one,
\* and requests of equal instant stay in input order
InPickupOrder(a, b) ==
    LET ta == a.requestedPickupAt
        tb == b.requestedPickupAt
    IN  IF Truthy(ta) /\ Truthy(tb)
        THEN ta.t < tb.t \/ (ta.t = tb.t /\ InputPosition(a) < InputPosition(b))
        ELSE IF Truthy(ta) THEN FALSE
        ELSE Truthy(tb) \/ InputPosition(a) < InputPosition(b)

OrderedByPickup(s) == \A i, j \in 1..Len(s) : i < j => InPickupOrder(s[i], s[j])

\* C24: requests are processed in ascending pickup-instant order with a
\* missing instant treated as earliest, so every vehicle's list is in
\* non-decreasing pickup-instant order and requests of equal instant keep
\* their relative input order.
C24_PickupOrder ==
    /\ OrderedByPickup(sorted_requests)
    /\ \A k, m \in 1..Len(log) : k < m => InPickupOrder(Placed(k), Placed(m))
    /\ \A id \in DOMAIN assignments : OrderedByPickup(assignments[id])

\* a vehicle's list of a request without instant followed by two of equal
\* instant, from an input that was not in pickup order
C24_Witness ==
    /\ pc = "done"
    /\ ~OrderedByPickup(requests)
    /\ \E id \in DOMAIN ret.assignments :
          LET s == ret.assignments[id]
          IN  /\ Len(s) = 3
              /\ ~Truthy(s[1].requestedPickupAt)
              /\ Truthy(s[2].requestedPickupAt)
              /\ s[2].requestedPickupAt = s[3].requestedPickupAt

\* the Stop Event list of _calculate_route_locally after all_stops.sort and
\* before the [:23] slices
NoDropoffBeforePickup(all_stops) ==
    \A i \in 1..Len(all_stops), j \in 1..Len(all_stops) :
        (all_stops[i].type = "dropoff" /\ all_stops[j].type = "pickup") => j < i

\* C25: in the priority-sorted Stop Event list of a sequencing call, before
\* truncation, no dropoff event stands before a pickup event of the same
\* batch, whatever the size of the batch.
C25_DropoffsAfterPickups ==
    (local.called /\ ~local.result.raise) => NoDropoffBeforePickup(LocalStops)

LacksInstant(id) ==
    \E i \in 1..Len(batch) : batch[i].requestId = id /\ ~Truthy(batch[i].requestedPickupAt)

HasInstant(id) ==
    \E i \in 1..Len(batch) : batch[i].requestId = id /\ Truthy(batch[i].requestedPickupAt)

\* C26: _calculate_route_locally returns a Route Result for every batch, also
\* for one that mixes requests with and without a pickup instant, and in its
\* sequence the pickups of requests without an instant stand before the
\* pickups of requests with one.
C26_MissingInstantFirst ==
    local.called =>
        /\ ~local.result.raise
        /\ \A i \in 1..Len(local.result.sequence), j \in 1..Len(local.result.sequence) :
              (/\ local.result.sequence[i].type = "pickup"
               /\ local.result.sequence[j].type = "pickup"
               /\ LacksInstant(local.result.sequence[i].requestId)
               /\ HasInstant(local.result.sequence[j].requestId)) => i < j

IsPrefixOf(s, t) == Len(s) <= Len(t) /\ SubSeq(t, 1, Len(s)) = s

\* C27: no backtracking. A step of the assignment loop leaves every list
\* as a prefix of what it becomes; a completed step either changes nothing,
\* the origin of the current request being unresolvable, or appends the
\* current request to the end of exactly one vehicle's list and leaves every
\* other list as it was.
C27_NoBacktracking ==
    [][InLoop =>
          /\ DOMAIN assignments' = DOMAIN assignments
          /\ \A id \in DOMAIN assignments : IsPrefixOf(assignments[id], assignments'[id])
          /\ idx' = idx + 1 =>
                \/ /\ assignments' = assignments
                   /\ get_stop_coords(stops, sorted_requests[idx].originStopId) = None
                \/ \E id \in DOMAIN assignments :
                      /\ assignments'[id] = Append(assignments[id], sorted_requests[idx])
                      /\ \A other \in DOMAIN assignments \ {id} :
                            assignments'[other] = assignments[other]]_vars

\* a finished assignment in which one request was skipped, one vehicle was
\* appended to twice and another vehicle holds a request too
C27_Witness ==
    /\ AssignFinished
    /\ Len(log) < Len(requests)
    /\ \E id \in DOMAIN assignments, other \in DOMAIN assignments :
          /\ id # other
          /\ Len(assignments[id]) >= 2
          /\ Len(assignments[other]) >= 1

\* C28: for the same requests and the same stop store, stops with zero/zero
\* coordinates and batches of fewer than two waypoints included,
\* _calculate_route_locally and RouteCalculator.optimize_route return the
\* same waypoints and the same Stop Event sequence (a result without the two
\* fields counts as one with empty lists).
C28_SameOrderingBothRoutines ==
    (/\ local.called
     /\ remote.called
     /\ ~local.result.raise
     /\ ~remote.result.raise) =>
        /\ local.result.waypoints = remote.result.waypoints
        /\ local.result.sequence = remote.result.sequence

\* max(1, floor(maxTravelMinutes / 6))
TravelBound == IF max_travel \div 6 >= 1 THEN max_travel \div 6 ELSE 1

\* C29: immediately after a non-forced placement the receiving vehicle
\* holds at most max(1, floor(maxTravelMinutes / 6)) requests; so with
\* maxTravelMinutes = 20 a vehicle holding more than 3 requests holds at
\* least one force-assigned request, whatever its capacity.
C29_NonForcedTravelBound ==
    /\ \A k \in 1..Len(log) : ~log[k].forced => log[k].load + 1 <= TravelBound
    /\ max_travel = 20 =>
          \A id \in DOMAIN assignments :
              Len(assignments[id]) > 3 =>
                  \E k \in 1..Len(log) : log[k].vehicleId = id /\ log[k].forced

\* with the default limit a vehicle of capacity 4 received three requests
\* by non-forced placements (the bound is attained) and then a fourth
C29_Witness ==
    /\ AssignFinished
    /\ max_travel = 20
    /\ \E k \in 1..Len(log) :
          /\ ~log[k].forced
          /\ log[k].load + 1 = 3
          /\ log[k].capacity > 3
          /\ Len(assignments[log[k].vehicleId]) = 4

Aligned(waypoints, sequence) ==
    /\ Len(waypoints) = Len(sequence)
    /\ \A i \in 1..Len(sequence) :
          /\ sequence[i].coords # None
          /\ waypoints[i] = sequence[i].coords

\* C30: in every Route Result of _calculate_route_locally that carries
\* waypoints and sequence, the two lists have the same length, waypoints[i]
\* is the coordinate of sequence[i] for every i, and every Stop Event has a
\* resolved coordinate: before and after truncation, on the success and on
\* the degraded path.
C30_WaypointsMatchSequence ==
    /\ (local.called /\ ~local.result.raise /\ local.result.has_keys) =>
          Aligned(local.result.waypoints, local.result.sequence)
    /\ (batch # <<>> /\ ~local_sort_raises(batch)) =>
          Aligned(Waypoints(LocalStops), LocalStops)

\* a degraded result cut to 23 entries, from a batch with a stop that does
\* not resolve
C30_Witness ==
    /\ local.called
    /\ ~local.result.raise
    /\ local.outcome = "error"
    /\ Len(LocalStops) > 23
    /\ Len(local.result.sequence) = 23
    /\ \E i \in 1..Len(batch) : get_stop_coords(stops, batch[i].destStopId) = None

====
